---- MODULE Spec2Model ----
(***************************************************************************)
(* A model of the `pattern` crate (src/src/lib.rs): a Pattern wraps a      *)
(* pull-based iterator, and four strategies (Any, ImmediateValue,          *)
(* DeferredValue, Get) extract fixed-size arrays from it through the       *)
(* shared primitive Pattern::collect.                                      *)
(*                                                                         *)
(* Rust arrays are 0-based; the sequences below are 1-based, so the code's *)
(* result[i] is result[i + 1] here.  The loop indices keep the code's      *)
(* 0-based values.                                                         *)
(***************************************************************************)
EXTENDS Integers, Sequences, FiniteSets, TLC

\* Bounds of the model.
MaxLen == 4       \* longest source the iterator is created over
MaxN == 2         \* largest N of a strategy (length of an expected sequence)
MaxK == 2         \* largest K, the length of one raw run of GetStrategy
MaxRuns == 2      \* largest N of GetStrategy (number of decoded values)

\* The item values.  The strategies only compare items for equality and hand
\* them to the decoder, so two distinct byte values stand for I::Item.
Items == {0, 1}

\* What a slot of `[MaybeUninit::uninit().assume_init(); N]` holds, in a build
\* that goes on, until it is written.
Uninit == -1

\* `MaybeUninit::uninit().assume_init()` is undefined behaviour, and a build
\* settles it one of two ways for a given element type: "plain" goes on with
\* an unspecified value in the slot (every build for u8 elements, unoptimised
\* builds for all element types); "trap" compiles the expression to a trap or
\* to unreachable code, and the call never returns (optimised builds for an
\* element type with invalid bit patterns, such as a reference).
Settled == {"plain", "trap"}

\* The element type decides: a build settles the arrays of source items
\* (`[I::Item; N]`, lib.rs 43, 85, 156) once for a Pattern, whose item type is
\* fixed, and the array of decoded values (`[T; N]`, lib.rs 195) for each T,
\* which every `extract::<T, K>` call chooses anew.

(***************************************************************************)
(* Option and Result values.                                               *)
(***************************************************************************)
None == [some |-> FALSE]
Some(v) == [some |-> TRUE, val |-> v]

\* enum PatternError: three variants, none of which carries a field.
NotFound == [kind |-> "NotFound"]
FailedDeserialize == [kind |-> "FailedDeserialize"]
IncorrectValue == [kind |-> "IncorrectValue"]
PatternError == {NotFound, FailedDeserialize, IncorrectValue}

Ok(v) == [tag |-> "Ok", value |-> v]
Err(e) == [tag |-> "Err", error |-> e]
\* An index out of bounds or an arithmetic overflow check aborts the call.
Panic == [tag |-> "Panic"]
\* The call is left without returning (illegal instruction, or control falls
\* out of the function into unreachable code): the caller gets no result.
Abort == [tag |-> "Abort"]

(***************************************************************************)
(* The iterator owned by Pattern.  `iter` is what the source has yet to    *)
(* yield; `pulled` (the items one call received) and `nexts` (the number   *)
(* of next() calls one call made) record what a call did to it.            *)
(***************************************************************************)
PatternNew(source) == [iter |-> source]

Cursor(p) == [iter |-> p.iter, pulled |-> <<>>, nexts |-> 0]

IterNext(it) ==
    IF it.iter = <<>>
    THEN [item |-> None, it |-> [it EXCEPT !.nexts = @ + 1]]
    ELSE [item |-> Some(Head(it.iter)),
          it |-> [iter |-> Tail(it.iter),
                  pulled |-> Append(it.pulled, Head(it.iter)),
                  nexts |-> it.nexts + 1]]

\* `unsafe { MaybeUninit::uninit().assume_init() }`: a value, or no return.
AssumeInit(settled) == IF settled = "trap" THEN None ELSE Some(Uninit)

\* `[uninit; N]`: the expression is evaluated whatever N is.
UninitArray(settled, n) ==
    LET v == AssumeInit(settled) IN
    IF v.some THEN Some([i \in 1..n |-> v.val]) ELSE None

\* A call left while building its result array: nothing was pulled.
Aborted(it) == [ret |-> Abort, it |-> it, obs |-> <<>>]

\* The observers a caller hands to extract_and: "noop" is the `|_| { }` that
\* extract() passes, "record" appends every slice it is shown to a list it
\* captured.
Closures == {"noop", "record"}

\* closure(&slice): what the observer's captured list is afterwards.
Invoke(closure, obs, slice) ==
    IF closure = "record" THEN Append(obs, slice) ELSE obs

\* What a closure handed to collect captures by mutable reference: the result
\* array it fills, and the observer with the list the observer captured.
Env(result, closure) == [result |-> result, closure |-> closure, obs |-> <<>>]

(***************************************************************************)
(* The closures the strategies hand to Pattern::collect.  Each returns the *)
(* closure's Result<(), PatternError> and the captured state it leaves.    *)
(***************************************************************************)
\* The slip `candidate == self.values[0]`.
ImmediateCallbackFirst(values, i, candidate, env) ==
    IF candidate = values[1]
    THEN [res |-> Ok(<<>>),
          env |-> [env EXCEPT !.result[i + 1] = candidate,
                              !.obs = Invoke(env.closure, @, <<candidate>>)]]
    ELSE [res |-> Err(IncorrectValue), env |-> env]

\* The slip of calling the observer before the comparison.
ImmediateCallbackObserveFirst(values, i, candidate, env) ==
    IF candidate = values[i + 1]
    THEN [res |-> Ok(<<>>),
          env |-> [env EXCEPT !.result[i + 1] = candidate,
                              !.obs = Invoke(env.closure, @, <<candidate>>)]]
    ELSE [res |-> Err(IncorrectValue),
          env |-> [env EXCEPT !.obs = Invoke(env.closure, @, <<candidate>>)]]

\* ImmediateValueStrategy::extract_and, the closure |i, candidate| { ... }:
\* a matching item is stored and shown to the observer as a one-item view.
ImmediateCallback(values, i, candidate, env) ==
    IF candidate = values[i + 1]
    THEN [res |-> Ok(<<>>),
          env |-> [env EXCEPT !.result[i + 1] = candidate,
                              !.obs = Invoke(env.closure, @, <<candidate>>)]]
    ELSE [res |-> Err(IncorrectValue), env |-> env]

\* The slip `candidate == self.values[i]`.
DeferredCallbackOffByOne(values, i, candidate, env) ==
    IF candidate = values[i + 1]
    THEN [res |-> Ok(<<>>),
          env |-> [env EXCEPT !.result[i + 2] = candidate]]
    ELSE [res |-> Err(IncorrectValue), env |-> env]

\* The slip of letting a repeated anchor pass for the expected value.
DeferredCallbackLenient(values, i, candidate, env) ==
    IF candidate = values[i + 2] \/ candidate = values[1]
    THEN [res |-> Ok(<<>>),
          env |-> [env EXCEPT !.result[i + 2] = candidate]]
    ELSE [res |-> Err(IncorrectValue), env |-> env]

\* DeferredValueStrategy::extract_and, the closure after the anchor.
DeferredCallback(values, i, candidate, env) ==
    IF candidate = values[i + 2]
    THEN [res |-> Ok(<<>>),
          env |-> [env EXCEPT !.result[i + 2] = candidate]]
    ELSE [res |-> Err(IncorrectValue), env |-> env]

\* AnyStrategy::extract_and, the closure: every item is stored.
AnyCallback(i, candidate, env) ==
    [res |-> Ok(<<>>), env |-> [env EXCEPT !.result[i + 1] = candidate]]

\* callback(i, candidate) for the closure `cb` collect was given.
Callback(cb, i, candidate, env) ==
    CASE cb.fn = "immediate" -> ImmediateCallback(cb.values, i, candidate, env)
      [] cb.fn = "deferred" -> DeferredCallback(cb.values, i, candidate, env)
      [] cb.fn = "any" -> AnyCallback(i, candidate, env)

(***************************************************************************)
(* Pattern::collect: `for i in 0..count`, pull one item and hand it to the *)
(* callback; stop at the first callback error or at the end of the source. *)
(***************************************************************************)
\* Variants of the collect loop with one slip each:
\*   "pushback"  an item the callback rejects is put back into the iterator;
\*   "keeplast"  the last of the `count` items is read without being consumed;
\*   "break"     the end of the source ends the loop without an error;
\*   "continue"  the end of the source does not end the loop.
RECURSIVE CollectFromSlip(_, _, _, _, _, _)
CollectFromSlip(slip, i, it, count, cb, env) ==
    IF i >= count
    THEN [res |-> Ok(<<>>), it |-> it, env |-> env]
    ELSE LET n == IterNext(it)
             kept == [n.it EXCEPT !.iter = it.iter]
         IN
         IF n.item.some
         THEN LET c == Callback(cb, i, n.item.val, env) IN
              IF c.res.tag = "Err"
              THEN [res |-> c.res,
                    it |-> IF slip = "pushback" THEN kept ELSE n.it,
                    env |-> c.env]
              ELSE CollectFromSlip(slip, i + 1,
                                   IF slip = "keeplast" /\ i = count - 1
                                   THEN kept ELSE n.it,
                                   count, cb, c.env)
         ELSE CASE slip = "break" -> [res |-> Ok(<<>>), it |-> n.it, env |-> env]
                [] slip = "continue" ->
                     [res |-> Err(NotFound),
                      it |-> CollectFromSlip(slip, i + 1, n.it, count, cb, env).it,
                      env |-> env]
                [] OTHER -> [res |-> Err(NotFound), it |-> n.it, env |-> env]

CollectFromPushBack(i, it, count, cb, env) ==
    CollectFromSlip("pushback", i, it, count, cb, env)

CollectFromKeepLast(i, it, count, cb, env) ==
    CollectFromSlip("keeplast", i, it, count, cb, env)

CollectFromBreak(i, it, count, cb, env) ==
    CollectFromSlip("break", i, it, count, cb, env)

CollectFromContinue(i, it, count, cb, env) ==
    CollectFromSlip("continue", i, it, count, cb, env)

RECURSIVE CollectFrom(_, _, _, _, _)
CollectFrom(i, it, count, cb, env) ==
    IF i >= count
    THEN [res |-> Ok(<<>>), it |-> it, env |-> env]
    ELSE LET n == IterNext(it) IN
         IF n.item.some
         THEN LET c == Callback(cb, i, n.item.val, env) IN
              IF c.res.tag = "Err"
              THEN [res |-> c.res, it |-> n.it, env |-> c.env]
              ELSE CollectFrom(i + 1, n.it, count, cb, c.env)
         ELSE [res |-> Err(NotFound), it |-> n.it, env |-> env]

\* `for i in 1..count`
CollectSkipFirst(it, count, cb, env) == CollectFrom(1, it, count, cb, env)

Collect(it, count, cb, env) == CollectFrom(0, it, count, cb, env)

(***************************************************************************)
(* ImmediateValueStrategy                                                  *)
(***************************************************************************)
\* `pattern` is the Pattern the strategy borrows, as the call finds it.
ImmediateValueStrategyNew(pattern, values) ==
    [pattern |-> pattern, values |-> values]

ImmediateExtractAnd(item, self, closure) ==
    LET N == Len(self.values)
        it == self.pattern
        result == UninitArray(item, N)
        c == Collect(it, N, [fn |-> "immediate", values |-> self.values],
                     Env(result.val, closure))
    IN  IF ~result.some
        THEN Aborted(it)
        ELSE IF c.res.tag = "Err"
             THEN [ret |-> c.res, it |-> c.it, obs |-> c.env.obs]
             ELSE [ret |-> Ok(c.env.result), it |-> c.it, obs |-> c.env.obs]

(***************************************************************************)
(* DeferredValueStrategy                                                   *)
(***************************************************************************)
\* A DeferredValueStrategy built field by field over the same Pattern.
DeferredValueStrategyDirect(pattern, values) ==
    [pattern |-> pattern, values |-> values]

\* The slip of a conversion that stores the values back to front.
FromReversed(value) ==
    [pattern |-> value.pattern,
     values |-> [i \in 1..Len(value.values) |->
                    value.values[Len(value.values) + 1 - i]]]

\* impl From<ImmediateValueStrategy> for DeferredValueStrategy
From(value) == [pattern |-> value.pattern, values |-> value.values]

\* ImmediateValueStrategy::deferred
Deferred(self) == From(self)

\* The slip of a scan that takes the first item pulled for the anchor.
FindFirstAnyItem(values, it) ==
    LET n == IterNext(it) IN
    IF n.item.some
    THEN IF Len(values) = 0
         THEN [out |-> "panic", it |-> n.it]
         ELSE [out |-> "break", it |-> n.it, candidate |-> n.item.val]
    ELSE [out |-> "return", it |-> n.it]

\* The `loop` that finds the first value.  self.values[0] is evaluated for
\* every item pulled: with N = 0 the index is out of bounds.
RECURSIVE FindFirst(_, _)
FindFirst(values, it) ==
    LET n == IterNext(it) IN
    IF n.item.some
    THEN IF Len(values) = 0
         THEN [out |-> "panic", it |-> n.it]
         ELSE IF n.item.val = values[1]
              THEN [out |-> "break", it |-> n.it, candidate |-> n.item.val]
              ELSE FindFirst(values, n.it)
    ELSE [out |-> "return", it |-> n.it]

\* The slip of showing the observer the array as soon as the anchor is stored.
DeferredExtractAndEarly(item, self, closure) ==
    LET N == Len(self.values)
        it == self.pattern
        result == UninitArray(item, N)
        f == FindFirst(self.values, it)
    IN  CASE ~result.some -> Aborted(it)
          [] result.some /\ f.out = "panic" ->
                [ret |-> Panic, it |-> f.it, obs |-> <<>>]
          [] result.some /\ f.out = "return" ->
                [ret |-> Err(NotFound), it |-> f.it, obs |-> <<>>]
          [] result.some /\ f.out = "break" ->
                LET env0 == [Env(result.val, closure) EXCEPT !.result[1] = f.candidate]
                    c == Collect(f.it, N - 1,
                                 [fn |-> "deferred", values |-> self.values], env0)
                IN  IF c.res.tag = "Err"
                    THEN [ret |-> c.res, it |-> c.it,
                          obs |-> Invoke(closure, <<>>, env0.result)]
                    ELSE [ret |-> Ok(c.env.result), it |-> c.it,
                          obs |-> Invoke(closure, <<>>, env0.result)]

DeferredExtractAnd(item, self, closure) ==
    LET N == Len(self.values)
        it == self.pattern
        result == UninitArray(item, N)
        f == FindFirst(self.values, it)
    IN  CASE ~result.some -> Aborted(it)
          [] result.some /\ f.out = "panic" ->
                [ret |-> Panic, it |-> f.it, obs |-> <<>>]
          [] result.some /\ f.out = "return" ->
                [ret |-> Err(NotFound), it |-> f.it, obs |-> <<>>]
          [] result.some /\ f.out = "break" ->
                LET env0 == [Env(result.val, closure) EXCEPT !.result[1] = f.candidate]
                    c == Collect(f.it, N - 1,
                                 [fn |-> "deferred", values |-> self.values], env0)
                IN  IF c.res.tag = "Err"
                    THEN [ret |-> c.res, it |-> c.it, obs |-> <<>>]
                    ELSE [ret |-> Ok(c.env.result), it |-> c.it,
                          obs |-> Invoke(closure, <<>>, c.env.result)]

(***************************************************************************)
(* AnyStrategy                                                             *)
(***************************************************************************)
\* The slip of calling the observer before the `?` on collect's result.
AnyExtractAndObserveAlways(item, N, it, closure) ==
    LET result == UninitArray(item, N)
        c == Collect(it, N, [fn |-> "any"], Env(result.val, closure))
    IN  IF ~result.some
        THEN Aborted(it)
        ELSE IF c.res.tag = "Err"
             THEN [ret |-> c.res, it |-> c.it,
                   obs |-> Invoke(closure, <<>>, c.env.result)]
             ELSE [ret |-> Ok(c.env.result), it |-> c.it,
                   obs |-> Invoke(closure, <<>>, c.env.result)]

AnyExtractAnd(item, N, it, closure) ==
    LET result == UninitArray(item, N)
        c == Collect(it, N, [fn |-> "any"], Env(result.val, closure))
    IN  IF ~result.some
        THEN Aborted(it)
        ELSE IF c.res.tag = "Err"
             THEN [ret |-> c.res, it |-> c.it, obs |-> <<>>]
             ELSE [ret |-> Ok(c.env.result), it |-> c.it,
                   obs |-> Invoke(closure, <<>>, c.env.result)]

(***************************************************************************)
(* GetStrategy.  T::deserialize is the caller's tiny_serde::Deserialize<K> *)
(* implementation; two decoders stand for it: "total" accepts every run    *)
(* (an unsigned integer read little-endian), "nonzero" rejects the runs    *)
(* whose integer is 0 (a NonZero integer).                                 *)
(***************************************************************************)
ByteBase == 256

RECURSIVE LeValue(_)
LeValue(run) ==
    IF run = <<>> THEN 0 ELSE Head(run) + ByteBase * LeValue(Tail(run))

Decoders == {"total", "nonzero"}

Deserialize(dec, run) ==
    IF dec = "nonzero" /\ LeValue(run) = 0 THEN None ELSE Some(LeValue(run))

\* Variants of the GetStrategy loop with one slip each:
\*   "reversed"  the decoded values are stored from the back of the array;
\*   "notfound"  a rejected run is reported with the wrong variant;
\*   "indexed"   the error value is given the index of the rejected run;
\*   "accepted"  the observer is shown a run only once it has been decoded.
RECURSIVE GetFromSlip(_, _, _, _, _, _, _, _, _, _)
GetFromSlip(slip, item, i, N, K, dec, it, result, obs, closure) ==
    IF i >= N
    THEN [ret |-> Ok(result), it |-> it, obs |-> obs]
    ELSE LET a == AnyExtractAnd(item, K, it, closure) IN
         IF a.ret.tag # "Ok"
         THEN [ret |-> a.ret, it |-> a.it, obs |-> obs \o a.obs]
         ELSE LET d == Deserialize(dec, a.ret.value) IN
              IF d.some
              THEN GetFromSlip(slip, item, i + 1, N, K, dec, a.it,
                               [result EXCEPT ![IF slip = "reversed" THEN N - i
                                                ELSE i + 1] = d.val],
                               obs \o a.obs, closure)
              ELSE [ret |-> CASE slip = "notfound" -> Err(NotFound)
                              [] slip = "indexed" ->
                                   Err([kind |-> "FailedDeserialize", index |-> i])
                              [] OTHER -> Err(FailedDeserialize),
                    it |-> a.it,
                    obs |-> IF slip = "accepted" THEN obs ELSE obs \o a.obs]

GetFromReversed(item, i, N, K, dec, it, result, obs, closure) ==
    GetFromSlip("reversed", item, i, N, K, dec, it, result, obs, closure)

GetFromWrongVariant(item, i, N, K, dec, it, result, obs, closure) ==
    GetFromSlip("notfound", item, i, N, K, dec, it, result, obs, closure)

GetFromIndexed(item, i, N, K, dec, it, result, obs, closure) ==
    GetFromSlip("indexed", item, i, N, K, dec, it, result, obs, closure)

GetFromObserveAccepted(item, i, N, K, dec, it, result, obs, closure) ==
    GetFromSlip("accepted", item, i, N, K, dec, it, result, obs, closure)

\* `for i in 0..N`: one AnyStrategy<K> extraction, sharing the observer, then
\* one decode.  `?` returns the inner call's error; an inner call left
\* without returning takes this call with it.
RECURSIVE GetFrom(_, _, _, _, _, _, _, _, _)
GetFrom(item, i, N, K, dec, it, result, obs, closure) ==
    IF i >= N
    THEN [ret |-> Ok(result), it |-> it, obs |-> obs]
    ELSE LET a == AnyExtractAnd(item, K, it, closure) IN
         IF a.ret.tag # "Ok"
         THEN [ret |-> a.ret, it |-> a.it, obs |-> obs \o a.obs]
         ELSE LET d == Deserialize(dec, a.ret.value) IN
              IF d.some
              THEN GetFrom(item, i + 1, N, K, dec, a.it,
                           [result EXCEPT ![i + 1] = d.val], obs \o a.obs,
                           closure)
              ELSE [ret |-> Err(FailedDeserialize), it |-> a.it,
                    obs |-> obs \o a.obs]

\* `item` is how the build settles `[u8; K]` of the inner AnyStrategy, `value`
\* how it settles `[T; N]` for the T of this call.
GetExtractAnd(item, value, N, K, dec, it, closure) ==
    LET result == UninitArray(value, N) IN
    IF ~result.some
    THEN Aborted(it)
    ELSE GetFrom(item, 0, N, K, dec, it, result.val, <<>>, closure)

(***************************************************************************)
(* The program: one Pattern over a finite source, and a caller that makes  *)
(* one extraction call after another on it.                                *)
(***************************************************************************)
VARIABLES
    build,      \* how the build settles arrays of the item type (never changes)
    src,        \* the whole source the iterator was created over (never changes)
    pattern,    \* the Pattern: its iterator
    last,       \* the last extraction call: its arguments and everything it did
    before      \* the call before the last one: how it ended, in brief

vars == <<build, src, pattern, last, before>>

\* The sequences over S of length 0..n.
SeqsUpTo(S, n) == UNION {[1..m -> S] : m \in 0..n}

Sources == SeqsUpTo(Items, MaxLen)
Expected == SeqsUpTo(Items, MaxN)

\* The number of items the source has yielded so far.
Consumed == Len(src) - Len(pattern.iter)

NoCall ==
    [op |-> "none", values |-> <<>>, N |-> 0, K |-> 0, dec |-> "total",
     start |-> 0, pulled |-> <<>>, nexts |-> 0, ret |-> Ok(<<>>), obs |-> <<>>]

\* How a call ended, in brief: "Ok" when it returned Ok having pulled items,
\* "IncorrectValue" when it failed on a mismatch, "other" otherwise.
Outcome(call) ==
    CASE call.op = "none" -> "none"
      [] call.ret.tag = "Ok" /\ call.pulled # <<>> -> "Ok"
      [] call.ret = Err(IncorrectValue) -> "IncorrectValue"
      [] OTHER -> "other"

Init ==
    /\ build \in Settled
    /\ src \in Sources
    /\ pattern = PatternNew(src)
    /\ last = NoCall
    /\ before = Outcome(NoCall)

\* What every call leaves behind: the advanced iterator and the call's record.
Called(op, values, N, K, dec, r) ==
    /\ pattern' = [iter |-> r.it.iter]
    /\ last' = [op |-> op, values |-> values, N |-> N, K |-> K, dec |-> dec,
                start |-> Consumed, pulled |-> r.it.pulled, nexts |-> r.it.nexts,
                ret |-> r.ret, obs |-> r.obs]
    /\ before' = Outcome(last)
    /\ UNCHANGED <<build, src>>

\* A call of extract_and with a recording observer; extract() is the same call
\* with the "noop" observer.  Whatever the call before did, the Pattern is as
\* that call left it: a panic unwinds out of the call with what it pulled
\* consumed, and a call left on its result array pulled nothing.  The
\* process may end there (the behaviour stutters) or go on to the next call.

\* pattern.any::<N>().extract_and(observer)
ExtractAny ==
    \E N \in 0..MaxN :
        Called("any", <<>>, N, 0, "total",
               AnyExtractAnd(build, N, Cursor(pattern), "record"))

\* pattern.values(E).extract_and(observer)
ExtractValues ==
    \E E \in Expected :
        Called("values", E, Len(E), 0, "total",
               ImmediateExtractAnd(build,
                                   ImmediateValueStrategyNew(Cursor(pattern), E),
                                   "record"))

\* pattern.values(E).deferred().extract_and(observer)
ExtractDeferred ==
    \E E \in Expected :
        Called("deferred", E, Len(E), 0, "total",
               DeferredExtractAnd(build,
                                  Deferred(ImmediateValueStrategyNew(Cursor(pattern),
                                                                     E)),
                                  "record"))

\* pattern.get::<N>().extract_and::<T, K, _>(observer): the call chooses T,
\* and with T come its decoder and how the build settles `[T; N]`.
ExtractGet ==
    \E N \in 0..MaxRuns, K \in 0..MaxK, dec \in Decoders, value \in Settled :
        Called("get", <<>>, N, K, dec,
               GetExtractAnd(build, value, N, K, dec, Cursor(pattern), "record"))

Next == ExtractAny \/ ExtractValues \/ ExtractDeferred \/ ExtractGet

Spec == Init /\ [][Next]_vars

(***************************************************************************)
(* Vocabulary of the properties.                                           *)
(***************************************************************************)
\* The source from 0-based position `from` on.
SrcFrom(from) == SubSeq(src, from + 1, Len(src))

\* What the source still held when the last call began.
Rest == SrcFrom(last.start)

\* Where the last call left the source.
End == last.start + Len(last.pulled)

Failed(call) == call.ret.tag = "Err"
Succeeded(call) == call.ret.tag = "Ok"
FailedWith(call, e) == call.ret = Err(e)

\* The 0-based index of the first item of s equal to v (Len(s) when none is).
RECURSIVE FirstIndex(_, _)
FirstIndex(s, v) ==
    IF s = <<>> \/ Head(s) = v THEN 0 ELSE 1 + FirstIndex(Tail(s), v)

\* s and e agree on the 0-based positions below i.
AgreeBelow(s, e, i) == \A j \in 1..i : s[j] = e[j]

(***************************************************************************)
(* C1  Consume-is-permanent.  Across every extraction call the number of   *)
(* items pulled from the source never decreases, and whatever the previous *)
(* call did (a failed one included) the next call receives the items that  *)
(* follow the last item the previous call pulled, and leaves the iterator  *)
(* right after the last item it pulled itself: nothing is pushed back.     *)
(***************************************************************************)
C1_ConsumeIsPermanent ==
    [][/\ Consumed' >= Consumed
       /\ last'.start = End
       /\ End + Len(last'.pulled) <= Len(src)
       /\ last'.pulled = SubSeq(src, End + 1, End + Len(last'.pulled))
       /\ Consumed' = End + Len(last'.pulled)
       /\ pattern'.iter = SrcFrom(End + Len(last'.pulled))]_vars

\* A call pulled items right after a call that failed on a mismatch.
C1_Witness ==
    /\ before = "IncorrectValue"
    /\ last.pulled # <<>>

(***************************************************************************)
(* C2  AnyStrategy on a source with at least N remaining items returns     *)
(* exactly the next N items in source order, having pulled exactly N items *)
(* with N calls of next().                                                 *)
(* As claimed.  It holds in a build that goes on past the uninitialised    *)
(* result array; in a build that traps there (C15) the call returns        *)
(* nothing, so the claimed outcome is not produced.                        *)
(***************************************************************************)
C2_AnyReturnsNextN ==
    (last.op = "any" /\ Len(Rest) >= last.N) =>
        /\ last.ret = Ok(SubSeq(Rest, 1, last.N))
        /\ last.pulled = SubSeq(Rest, 1, last.N)
        /\ last.nexts = last.N
        /\ pattern.iter = SrcFrom(last.start + last.N)

\* An any::<N>() with N >= 2 taken from the middle of a longer source.
C2_Witness ==
    /\ last.op = "any"
    /\ last.N >= 2
    /\ last.start > 0
    /\ Len(Rest) > last.N
    /\ Succeeded(last)

(***************************************************************************)
(* C3  ImmediateValueStrategy with expected sequence E of length N         *)
(* succeeds, returning E, exactly when the next N items equal E position   *)
(* by position; when the first mismatch is at position i the call fails    *)
(* with IncorrectValue having pulled exactly i + 1 items.                  *)
(* As claimed.  It holds in a build that goes on past the uninitialised    *)
(* result array; in a build that traps there (C15) the call returns        *)
(* nothing, so the claimed outcome is not produced.                        *)
(***************************************************************************)
C3_ImmediateMatchesPositionally ==
    last.op = "values" =>
        LET E == last.values
            N == last.N
            matches == Len(Rest) >= N /\ SubSeq(Rest, 1, N) = E
        IN  /\ Succeeded(last) <=> matches
            /\ Succeeded(last) => last.ret = Ok(E) /\ Len(last.pulled) = N
            /\ \A i \in 0..(N - 1) :
                 (i < Len(Rest) /\ AgreeBelow(Rest, E, i) /\ Rest[i + 1] # E[i + 1]) =>
                     /\ FailedWith(last, IncorrectValue)
                     /\ Len(last.pulled) = i + 1
                     /\ last.nexts = i + 1
                     /\ pattern.iter = SrcFrom(last.start + i + 1)

\* A mismatch after at least one matching item, with items left behind it.
C3_Witness ==
    /\ last.op = "values"
    /\ FailedWith(last, IncorrectValue)
    /\ Len(last.pulled) >= 2
    /\ pattern.iter # <<>>

(***************************************************************************)
(* C4  DeferredValueStrategy with expected sequence E of length N >= 1:    *)
(* when the first occurrence of E[0] in the remaining source is at index p *)
(* and the N - 1 items after it equal E[1..N], the call succeeds, returns  *)
(* E and has pulled exactly p + N items.                                   *)
(* As claimed.  It holds in a build that goes on past the uninitialised    *)
(* result array; in a build that traps there (C15) the call returns        *)
(* nothing, so the claimed outcome is not produced.                        *)
(***************************************************************************)
C4_DeferredSkipsToAnchor ==
    (last.op = "deferred" /\ last.N >= 1) =>
        LET E == last.values
            N == last.N
            p == FirstIndex(Rest, E[1])
        IN  (p + N <= Len(Rest) /\ SubSeq(Rest, p + 1, p + N) = E) =>
                /\ last.ret = Ok(E)
                /\ Len(last.pulled) = p + N
                /\ pattern.iter = SrcFrom(last.start + p + N)

\* The source [a, b, E0, E1, ...] with a, b # E0: two items skipped, two matched.
C4_Witness ==
    /\ last.op = "deferred"
    /\ last.N = 2
    /\ Succeeded(last)
    /\ Len(last.pulled) = 2 + last.N
    /\ last.values[1] # last.values[2]

(***************************************************************************)
(* C5  (as claimed) DeferredValueStrategy succeeds and returns E whenever  *)
(* E (N >= 1) occurs as a contiguous run somewhere in the remaining        *)
(* source.  The code gives up at the first mismatch after the first E[0]:  *)
(* [E0, E0, E1] with E = [E0, E1] fails with IncorrectValue.               *)
(***************************************************************************)
\* E occurs as a contiguous run of s.
Occurs(E, s) ==
    \E p \in 0..(Len(s) - Len(E)) : SubSeq(s, p + 1, p + Len(E)) = E

C5_DeferredFindsSubsequence ==
    (last.op = "deferred" /\ last.N >= 1 /\ Occurs(last.values, Rest)) =>
        last.ret = Ok(last.values)

(***************************************************************************)
(* Vocabulary of GetStrategy: the K-item runs of the remaining source.     *)
(***************************************************************************)
\* The 0-based run i lies wholly inside the remaining source.
Complete(i) == (i + 1) * last.K <= Len(Rest)

Run(i) == SubSeq(Rest, i * last.K + 1, (i + 1) * last.K)

Rejected(i) == Complete(i) /\ ~Deserialize(last.dec, Run(i)).some

\* Every run before run j is there and is accepted by the decoder.
AcceptedBelow(j) == \A i \in 0..(j - 1) : Complete(i) /\ ~Rejected(i)

(***************************************************************************)
(* C6  GetStrategy with a decoder that always succeeds, on a source of     *)
(* exactly N * K items: the call returns N values, value i being the       *)
(* decoding of the source items [i*K, (i+1)*K), and the source is fully    *)
(* consumed afterwards.                                                    *)
(* As claimed.  It holds in a build that goes on past the uninitialised    *)
(* result array; in a build that traps there (C15) the call returns        *)
(* nothing, so the claimed outcome is not produced.                        *)
(***************************************************************************)
C6_GetDecodesRunsInOrder ==
    (last.op = "get" /\ last.dec = "total" /\ Len(Rest) = last.N * last.K) =>
        /\ Succeeded(last)
        /\ Len(last.ret.value) = last.N
        /\ \A i \in 0..(last.N - 1) :
             Deserialize(last.dec, Run(i)) = Some(last.ret.value[i + 1])
        /\ last.pulled = Rest
        /\ pattern.iter = <<>>

\* Two runs of two items each that decode to different values.
C6_Witness ==
    /\ last.op = "get"
    /\ last.dec = "total"
    /\ last.N = 2
    /\ last.K = 2
    /\ Len(Rest) = 4
    /\ Succeeded(last)
    /\ last.ret.value[1] # last.ret.value[2]

(***************************************************************************)
(* C7  GetStrategy, when run j is the first one the decoder rejects and    *)
(* the source holds it: the call fails with FailedDeserialize, returns no  *)
(* array and has pulled exactly j*K + K items.  When instead the source    *)
(* ends before run j is complete (the runs before it accepted), the call   *)
(* fails with NotFound having pulled the fewer items that were left.       *)
(* As claimed.  It holds in a build that goes on past the uninitialised    *)
(* result array; in a build that traps there (C15) the call returns        *)
(* nothing, so the claimed outcome is not produced.                        *)
(***************************************************************************)
C7_GetStopsAtRejectedRun ==
    last.op = "get" =>
        \A j \in 0..(last.N - 1) :
            AcceptedBelow(j) =>
                /\ Rejected(j) =>
                     /\ last.ret = Err(FailedDeserialize)
                     /\ "value" \notin DOMAIN last.ret
                     /\ Len(last.pulled) = j * last.K + last.K
                     /\ pattern.iter = SrcFrom(last.start + (j + 1) * last.K)
                /\ ~Complete(j) =>
                     /\ last.ret = Err(NotFound)
                     /\ "value" \notin DOMAIN last.ret
                     /\ last.pulled = Rest
                     /\ Len(last.pulled) < j * last.K + last.K

\* Run 0 of two is rejected and the second run is left in the source.
C7_Witness ==
    /\ last.op = "get"
    /\ last.N = 2
    /\ last.K = 2
    /\ FailedWith(last, FailedDeserialize)
    /\ Len(last.pulled) = 2
    /\ Len(pattern.iter) >= 2

(***************************************************************************)
(* C8  (as claimed) The FailedDeserialize error of a GetStrategy call      *)
(* carries the index of the rejected run or the total consumed-count at    *)
(* the failure.  The code returns the unit variant                         *)
(* PatternError::FailedDeserialize, which carries neither.                 *)
(***************************************************************************)
\* The 0-based run a failed get call rejected: the observer saw every run pulled.
RejectedRun == Len(last.obs) - 1

C8_ErrorLocatesRun ==
    (/\ last.op = "get"
     /\ Failed(last)
     /\ last.ret.error.kind = "FailedDeserialize") =>
        \E f \in DOMAIN last.ret.error \ {"kind"} :
            last.ret.error[f] \in {RejectedRun, End}

(***************************************************************************)
(* C9  Two successful extraction calls in a row observe disjoint,          *)
(* contiguous, order-preserving windows of the source: each call's pulled  *)
(* items are the source items from its start on, the second call starts    *)
(* right after the last item of the first, and what each call returns are  *)
(* its pulled items in source order (the last N of them for Any, Immediate *)
(* and Deferred; the K-item runs, decoded, for Get).                       *)
(***************************************************************************)
\* What the call returned is its window of the source, in order.
Window(call) ==
    /\ call.start + Len(call.pulled) <= Len(src)
    /\ call.pulled = SubSeq(src, call.start + 1, call.start + Len(call.pulled))
    /\ IF call.op = "get"
       THEN /\ Len(call.pulled) = call.N * call.K
            /\ Len(call.ret.value) = call.N
            /\ \A i \in 0..(call.N - 1) :
                 Deserialize(call.dec,
                             SubSeq(call.pulled, i * call.K + 1, (i + 1) * call.K))
                     = Some(call.ret.value[i + 1])
       ELSE /\ Len(call.pulled) >= call.N
            /\ call.ret.value = SubSeq(call.pulled, Len(call.pulled) - call.N + 1,
                                       Len(call.pulled))

C9_SequentialWindows ==
    [][(last.op # "none" /\ Succeeded(last) /\ Succeeded(last')) =>
          /\ Window(last)
          /\ Window(last')
          /\ last'.start = last.start + Len(last.pulled)]_vars

\* A successful call that pulled items, then a deferred call that skipped
\* items before its match.
C9_Witness ==
    /\ before = "Ok"
    /\ last.op = "deferred"
    /\ Succeeded(last)
    /\ Len(last.pulled) > last.N

(***************************************************************************)
(* C10  AnyStrategy on a source with fewer than N remaining items fails    *)
(* with NotFound having pulled all the remaining items: the source is      *)
(* exhausted afterwards.                                                   *)
(* As claimed.  It holds in a build that goes on past the uninitialised    *)
(* result array; in a build that traps there (C15) the call returns        *)
(* nothing, so the claimed outcome is not produced.                        *)
(***************************************************************************)
C10_AnyExhaustsShortSource ==
    (last.op = "any" /\ Len(Rest) < last.N) =>
        /\ last.ret = Err(NotFound)
        /\ last.pulled = Rest
        /\ last.nexts = Len(Rest) + 1
        /\ pattern.iter = <<>>

\* An any::<N>() that found some items, but fewer than N.
C10_Witness ==
    /\ last.op = "any"
    /\ last.start > 0
    /\ FailedWith(last, NotFound)
    /\ last.pulled # <<>>

(***************************************************************************)
(* C11  DeferredValueStrategy (N >= 1) fails with NotFound exactly when    *)
(* the source is exhausted before the call completes without a mismatch:   *)
(* E[0] never occurs in the remaining source, or the anchor is found and   *)
(* the source ends, every item after the anchor matching, before the N - 1 *)
(* following items were all examined.  In both cases the entire remaining  *)
(* source has been consumed.                                               *)
(* As claimed.  It holds in a build that goes on past the uninitialised    *)
(* result array; in a build that traps there (C15) the call returns        *)
(* nothing, so the claimed outcome is not produced.                        *)
(***************************************************************************)
C11_DeferredNotFound ==
    (last.op = "deferred" /\ last.N >= 1) =>
        LET E == last.values
            L == Len(Rest)
            p == FirstIndex(Rest, E[1])
            absent == p = L
            short == /\ p < L
                     /\ p + last.N > L
                     /\ \A j \in 1..(L - p - 1) : Rest[p + j + 1] = E[j + 1]
        IN  /\ FailedWith(last, NotFound) <=> (absent \/ short)
            /\ FailedWith(last, NotFound) =>
                 /\ last.pulled = Rest
                 /\ pattern.iter = <<>>

\* The anchor is found after a skipped item, and the source ends right there.
C11_Witness ==
    /\ last.op = "deferred"
    /\ last.N = 2
    /\ FailedWith(last, NotFound)
    /\ Len(last.pulled) >= 2
    /\ last.pulled[Len(last.pulled)] = last.values[1]
    /\ last.pulled[1] # last.values[1]

(***************************************************************************)
(* C12  ImmediateValueStrategy::deferred() preserves the expected values   *)
(* and the cursor: pattern.values(E).deferred().extract() returns the same *)
(* result, pulls the same items and leaves the same iterator as a          *)
(* DeferredValueStrategy holding E run on the same cursor state.           *)
(***************************************************************************)
C12_DeferredConversionPreserves ==
    last.op = "deferred" =>
        LET direct == DeferredExtractAnd(
                          build,
                          DeferredValueStrategyDirect(Cursor(PatternNew(Rest)),
                                                      last.values),
                          "record")
        IN  /\ last.ret = direct.ret
            /\ last.pulled = direct.it.pulled
            /\ last.nexts = direct.it.nexts
            /\ pattern.iter = direct.it.iter
            /\ last.obs = direct.obs

\* A converted strategy with two different expected values matched after the
\* cursor had already advanced.
C12_Witness ==
    /\ last.op = "deferred"
    /\ last.start > 0
    /\ last.N = 2
    /\ last.values[1] # last.values[2]
    /\ Succeeded(last)

(***************************************************************************)
(* C13  (as claimed) When an extraction call returns an error, none of the *)
(* items it pulled has been delivered to the caller, neither in the return *)
(* value nor through the observer closure.                                 *)
(***************************************************************************)
\* The slices the observer was shown, one after another.
RECURSIVE Flatten(_)
Flatten(slices) ==
    IF slices = <<>> THEN <<>> ELSE Head(slices) \o Flatten(Tail(slices))

C13_NothingObservedOnFailure ==
    Failed(last) =>
        /\ "value" \notin DOMAIN last.ret
        /\ Flatten(last.obs) = <<>>

(***************************************************************************)
(* C13  (amended) When an extraction call returns an error, no result      *)
(* array is returned, and the observer of AnyStrategy and of               *)
(* DeferredValueStrategy has not been invoked.  The observer of            *)
(* ImmediateValueStrategy has by then been shown the items matched before  *)
(* the failure, and the observer of GetStrategy the runs completely pulled *)
(* before it: in source order, and nothing else.                           *)
(***************************************************************************)
C13_FailureShowsOnlyObservedPrefix ==
    Failed(last) =>
        /\ "value" \notin DOMAIN last.ret
        /\ last.op \in {"any", "deferred"} => last.obs = <<>>
        /\ last.op = "values" =>
             LET matched == IF FailedWith(last, IncorrectValue)
                            THEN Len(last.pulled) - 1 ELSE Len(last.pulled)
             IN  /\ Len(last.obs) = matched
                 /\ Flatten(last.obs) = SubSeq(last.pulled, 1, matched)
        /\ last.op = "get" =>
             /\ \A k \in 1..Len(last.obs) : Len(last.obs[k]) = last.K
             /\ Flatten(last.obs) = SubSeq(last.pulled, 1, last.K * Len(last.obs))
             /\ Len(last.pulled) - last.K * Len(last.obs) < last.K \/ last.K = 0

\* A failed immediate match whose observer had already seen a matched item.
C13_Witness ==
    /\ last.op = "values"
    /\ FailedWith(last, IncorrectValue)
    /\ last.obs # <<>>

(***************************************************************************)
(* C14  For AnyStrategy and DeferredValueStrategy the observer is invoked  *)
(* exactly once, with the N-item array the call returns, when the call     *)
(* succeeds, and not at all when it fails; what the call returns and what  *)
(* it pulls are the same with the observer of extract(), which does        *)
(* nothing.                                                                *)
(***************************************************************************)
\* The last call made over again, from the same place, with observer `closure`.
Again(closure) ==
    IF last.op = "any"
    THEN AnyExtractAnd(build, last.N, Cursor(PatternNew(Rest)), closure)
    ELSE DeferredExtractAnd(
             build,
             Deferred(ImmediateValueStrategyNew(Cursor(PatternNew(Rest)),
                                                last.values)),
             closure)

C14_ObserverOncePerSuccess ==
    last.op \in {"any", "deferred"} =>
        /\ Succeeded(last) => last.obs = <<last.ret.value>>
        /\ Failed(last) => last.obs = <<>>
        /\ \A closure \in Closures :
             /\ Again(closure).ret = last.ret
             /\ Again(closure).it.pulled = last.pulled
             /\ Again(closure).it.iter = pattern.iter

\* A deferred call that skipped to its anchor and succeeded, the observer
\* having seen the returned array once, right after a call that failed.
C14_Witness ==
    /\ before = "IncorrectValue"
    /\ last.op = "deferred"
    /\ Succeeded(last)
    /\ last.N = 2
    /\ Len(last.pulled) > last.N
    /\ last.obs = <<last.ret.value>>

(***************************************************************************)
(* C15  (as claimed) No extraction has a panic path: every call, N = 0     *)
(* included, returns Ok or one of NotFound, IncorrectValue,                *)
(* FailedDeserialize.  DeferredValueStrategy with an empty expected        *)
(* sequence on a non-empty source evaluates self.values[0] and panics.     *)
(* Every strategy builds its result array from an uninitialised value,     *)
(* which a build may compile to a trap: the call then returns nothing.     *)
(***************************************************************************)
C15_NoPanicPath ==
    /\ last.ret.tag \in {"Ok", "Err"}
    /\ Failed(last) => last.ret.error \in PatternError

(***************************************************************************)
(* C16  DeferredValueStrategy does not resume scanning after the anchor:   *)
(* with the first E[0] at index p, when the first mismatch among the items *)
(* that follow is against E[i] (i >= 1) the call fails with IncorrectValue *)
(* having pulled exactly p + i + 1 items, whatever comes later.            *)
(* As claimed.  It holds in a build that goes on past the uninitialised    *)
(* result array; in a build that traps there (C15) the call returns        *)
(* nothing, so the claimed outcome is not produced.                        *)
(***************************************************************************)
C16_DeferredDoesNotResume ==
    (last.op = "deferred" /\ last.N >= 1) =>
        LET E == last.values
            p == FirstIndex(Rest, E[1])
        IN  \A i \in 1..(last.N - 1) :
                (/\ p + i < Len(Rest)
                 /\ \A j \in 1..(i - 1) : Rest[p + j + 1] = E[j + 1]
                 /\ Rest[p + i + 1] # E[i + 1]) =>
                    /\ FailedWith(last, IncorrectValue)
                    /\ Len(last.pulled) = p + i + 1
                    /\ pattern.iter = SrcFrom(last.start + p + i + 1)

\* The source [E0, E0, E1, ...] with E = [E0, E1]: two items pulled, E1 is next.
C16_Witness ==
    /\ last.op = "deferred"
    /\ last.N = 2
    /\ last.values[1] # last.values[2]
    /\ last.pulled = <<last.values[1], last.values[1]>>
    /\ pattern.iter # <<>>
    /\ Head(pattern.iter) = last.values[2]
    /\ FailedWith(last, IncorrectValue)

(***************************************************************************)
(* C17  GetStrategy invokes the observer once per completely pulled K-item *)
(* run, with that run, whether or not the decoder then accepts it: a call  *)
(* that succeeds has invoked it N times in run order, a call that fails    *)
(* with FailedDeserialize at run j has invoked it j + 1 times, a call that *)
(* fails with NotFound while pulling run j has invoked it j times.         *)
(***************************************************************************)
\* The first m runs of the remaining source.
Runs(m) == [k \in 1..m |-> Run(k - 1)]

C17_GetObservesEveryPulledRun ==
    last.op = "get" =>
        /\ Succeeded(last) => last.obs = Runs(last.N)
        /\ FailedWith(last, FailedDeserialize) =>
             \E j \in 0..(last.N - 1) :
                 AcceptedBelow(j) /\ Rejected(j) /\ last.obs = Runs(j + 1)
        /\ FailedWith(last, NotFound) =>
             \E j \in 0..(last.N - 1) :
                 AcceptedBelow(j) /\ ~Complete(j) /\ last.obs = Runs(j)

\* The second of two 2-item runs is rejected: the observer saw both.
C17_Witness ==
    /\ last.op = "get"
    /\ last.K = 2
    /\ FailedWith(last, FailedDeserialize)
    /\ Len(last.obs) = 2

(***************************************************************************)
(* C18  ImmediateValueStrategy invokes the observer once per matched item, *)
(* in source order, with that item: N times with E[0..N) on success, and   *)
(* exactly i times with E[0..i) when the first mismatch is at position i   *)
(* or the source ends after i matched items; never with a mismatching item.*)
(* As claimed.  It holds in a build that goes on past the uninitialised    *)
(* result array; in a build that traps there (C15) the call returns        *)
(* nothing, so the claimed outcome is not produced.                        *)
(***************************************************************************)
\* The number of leading positions on which s and e agree.
RECURSIVE MatchLen(_, _)
MatchLen(s, e) ==
    IF s = <<>> \/ e = <<>> \/ Head(s) # Head(e)
    THEN 0
    ELSE 1 + MatchLen(Tail(s), Tail(e))

C18_ImmediateObservesEachMatch ==
    last.op = "values" =>
        LET i == MatchLen(Rest, last.values)
        IN  /\ last.obs = [k \in 1..i |-> <<last.values[k]>>]
            /\ Succeeded(last) => i = last.N
            /\ Failed(last) => i < last.N

\* The source ended after one matched item: the observer saw that item only.
C18_Witness ==
    /\ last.op = "values"
    /\ FailedWith(last, NotFound)
    /\ last.obs = <<<<last.values[1]>>>>

(***************************************************************************)
(* C19  Every extraction call on a source with L remaining items ends      *)
(* after at most L successful pulls and at most one pull that reports the  *)
(* end of the data, which is then the last one; the anchor scan of         *)
(* DeferredValueStrategy ends with NotFound when E[0] is not in the source.*)
(* As claimed.  It holds in a build that goes on past the uninitialised    *)
(* result array; in a build that traps there (C15) the call returns        *)
(* nothing, so the claimed outcome is not produced.                        *)
(***************************************************************************)
C19_CallsEndWithinSource ==
    last.op # "none" =>
        /\ Len(last.pulled) <= Len(Rest)
        /\ last.nexts \in {Len(last.pulled), Len(last.pulled) + 1}
        /\ last.nexts = Len(last.pulled) + 1 =>
             last.pulled = Rest /\ last.ret = Err(NotFound)
        /\ (/\ last.op = "deferred"
            /\ last.N >= 1
            /\ FirstIndex(Rest, last.values[1]) = Len(Rest)) =>
               last.ret = Err(NotFound) /\ last.nexts = Len(Rest) + 1

\* A scan for an anchor that is not there, over at least two items.
C19_Witness ==
    /\ last.op = "deferred"
    /\ last.N >= 1
    /\ Len(Rest) >= 2
    /\ FirstIndex(Rest, last.values[1]) = Len(Rest)
    /\ last.nexts = Len(Rest) + 1

====
